---- MODULE Spec2Model ----
(***************************************************************************)
(* Travel Reservation System (src/main.c): users, flights, hotels and      *)
(* reservations kept in linked lists, persisted to users.dat, flights.txt, *)
(* hotels.txt, reservations.dat and last_id.txt.  One console process; the *)
(* position of the process is the menu whose prompt it is waiting at.      *)
(***************************************************************************)
EXTENDS Integers, Sequences, FiniteSets, TLC

VARIABLES pc, currentUser, head, flightsHead, hotelsHead, reservationsHead,
          lastID, usersFile, flightsFile, hotelsFile, reservationsFile,
          lastIdFile,
          issued, crossSession, atExit, startedAtBase, adminChoice   \* history: see below

vars == <<pc, currentUser, head, flightsHead, hotelsHead, reservationsHead,
          lastID, usersFile, flightsFile, hotelsFile, reservationsFile,
          lastIdFile, issued, crossSession, atExit, startedAtBase,
          adminChoice>>

memory == <<currentUser, head, flightsHead, hotelsHead, reservationsHead, lastID>>
files == <<usersFile, flightsFile, hotelsFile, reservationsFile, lastIdFile>>

(* History variables, read by no handler: issued lists the reservation IDs
   given out since the data was empty, oldest first; crossSession holds in the state right
   after a step that created a reservation with the first generateReservationID
   call of a process (the counter came from last_id.txt) when earlier
   reservations existed. *)
NoCreation == issued' = issued /\ crossSession' = FALSE

(* atExit is what the four lists held when the process left through option 4
   of the main menu; it is kept over the next start of the process and
   forgotten by every other step. *)
NoSnapshot ==
    [taken |-> FALSE, users |-> <<>>, flights |-> <<>>, hotels |-> <<>>,
     reservations |-> <<>>]

NoExit == atExit' = NoSnapshot

(* adminChoice is the option whose handling ended adminMenu() in the last step,
   0 when the last step did not end it. *)
NoAdminExit == adminChoice' = 0

(* startedAtBase holds while the process is one that found no last_id.txt when
   it started and has created no reservation yet. *)

----------------------------------------------------------------------------
(* Bounds of the model *)

MaxReservations == 2
MaxLastID == 1004

(* Program constants *)

BaseID == 1000
NoTarget == -1
ExitInput == 0

(* Inputs typed at the prompts *)

Usernames == {"ana", "root"}
Capacities == {1, 2}
Texts == {"LIS"}
AllTexts == Texts \cup {""}    \* "" is the Enter key alone at a fgets prompt
Decisions == {"yes", "no", "exit", "other"}
ReservationInputs == {ExitInput} \cup ((BaseID + 1)..MaxLastID)

Statuses == {"Pending", "Approved", "Rejected", "Cancelled", "Cancel Requested"}

----------------------------------------------------------------------------
(* Files: a file is absent or holds the records written by the last save. *)

NoFile == [exists |-> FALSE, content |-> <<>>]
NoIdFile == [exists |-> FALSE, content |-> 0]
FileOf(content) == [exists |-> TRUE, content |-> content]

(* fscanf("%d|%49[^|]|...") stops at the first record with a field that the
   scanset cannot match (an empty field); that record and the rest are lost *)
ScanField(t) == t # ""

FlightLineScans(f) ==
    /\ ScanField(f.origin) /\ ScanField(f.destination)
    /\ ScanField(f.departureTime) /\ ScanField(f.arrivalTime)

HotelLineScans(h) == ScanField(h.name) /\ ScanField(h.location)

RECURSIVE ScanFlightLines(_)
ScanFlightLines(lines) ==
    IF lines = <<>> THEN <<>>
    ELSE IF FlightLineScans(Head(lines))
         THEN <<Head(lines)>> \o ScanFlightLines(Tail(lines))
         ELSE <<>>

RECURSIVE ScanHotelLines(_)
ScanHotelLines(lines) ==
    IF lines = <<>> THEN <<>>
    ELSE IF HotelLineScans(Head(lines))
         THEN <<Head(lines)>> \o ScanHotelLines(Tail(lines))
         ELSE <<>>

saveUsers(us) == FileOf(us)
loadUsers(file) == IF file.exists THEN file.content ELSE <<>>

saveFlightsToFile(fl) == FileOf(fl)
loadFlightsFromFile(file) ==
    IF file.exists THEN ScanFlightLines(file.content) ELSE <<>>

saveHotelsToFile(hl) == FileOf(hl)
loadHotelsFromFile(file) ==
    IF file.exists THEN ScanHotelLines(file.content) ELSE <<>>

saveReservationsToFile(rs) == FileOf(rs)

(* inserts each record read at the head instead of after the last one *)
loadReservationsFromFile_AtHead(file) ==
    IF file.exists
    THEN [i \in DOMAIN file.content |-> file.content[Len(file.content) + 1 - i]]
    ELSE <<>>

loadReservationsFromFile(file) == IF file.exists THEN file.content ELSE <<>>

loadLastReservationID_IgnoresFile(file) == BaseID

loadLastReservationID(file) == IF file.exists THEN file.content ELSE BaseID
saveLastReservationID(id) == [exists |-> TRUE, content |-> id]

----------------------------------------------------------------------------
(* List scans *)

RemoveAt(s, i) == SubSeq(s, 1, i - 1) \o SubSeq(s, i + 1, Len(s))

(* where a scan from the head of the list stops *)
FlightAt(fl, flightNumber) ==
    CHOOSE i \in DOMAIN fl :
       /\ fl[i].flightNumber = flightNumber
       /\ \A j \in 1..(i - 1) : fl[j].flightNumber # flightNumber

HotelAt(hl, hotelID) ==
    CHOOSE i \in DOMAIN hl :
       /\ hl[i].hotelID = hotelID
       /\ \A j \in 1..(i - 1) : hl[j].hotelID # hotelID

flightExists(fl, flightNumber) == \E i \in DOMAIN fl : fl[i].flightNumber = flightNumber
hotelExists(hl, hotelID) == \E i \in DOMAIN hl : hl[i].hotelID = hotelID

countReservationsByFlight(rs, flightNumber, status) ==
    Cardinality({i \in DOMAIN rs :
                    rs[i].flightNumber = flightNumber /\ rs[i].status = status})

countReservationsByHotel(rs, hotelID, status) ==
    Cardinality({i \in DOMAIN rs :
                    rs[i].hotelID = hotelID /\ rs[i].status = status})

calculateAvailableSeats(fl, rs, flightNumber) ==
    LET approved == countReservationsByFlight(rs, flightNumber, "Approved")
    IN IF flightExists(fl, flightNumber)
       THEN fl[FlightAt(fl, flightNumber)].seatsAvailable - approved
       ELSE 0

calculateAvailableRooms(hl, rs, hotelID) ==
    LET approved == countReservationsByHotel(rs, hotelID, "Approved")
    IN IF hotelExists(hl, hotelID)
       THEN hl[HotelAt(hl, hotelID)].roomsAvailable - approved
       ELSE 0

(* the number printed by listFlightsUser / listHotelsUser for one record *)
listFlightsUser(rs, f) ==
    LET pendingReservations == countReservationsByFlight(rs, f.flightNumber, "Pending")
        approvedReservations == countReservationsByFlight(rs, f.flightNumber, "Approved")
        availableSeats == f.seatsAvailable - (pendingReservations + approvedReservations)
    IN IF availableSeats < 0 THEN 0 ELSE availableSeats

listHotelsUser(rs, h) ==
    LET pendingReservations == countReservationsByHotel(rs, h.hotelID, "Pending")
        approvedReservations == countReservationsByHotel(rs, h.hotelID, "Approved")
        availableRooms == h.roomsAvailable - (pendingReservations + approvedReservations)
    IN IF availableRooms < 0 THEN 0 ELSE availableRooms

(* static lastID of generateReservationID: the value after the call, which is
   also the value returned *)
generateReservationID_NoIncrement(lid, idFile) ==
    IF lid = 0 THEN loadLastReservationID(idFile) ELSE lid

generateReservationID(lid, idFile) ==
    (IF lid = 0 THEN loadLastReservationID(idFile) ELSE lid) + 1


(* the reservation the scans of cancelUserReservation, handleReservationApproval
   and handleCancellationRequests stop at: 0 when the scan reaches the end *)
FindReservation(rs, resID) ==
    IF \E i \in DOMAIN rs : rs[i].reservationID = resID
    THEN CHOOSE i \in DOMAIN rs :
            /\ rs[i].reservationID = resID
            /\ \A j \in 1..(i - 1) : rs[j].reservationID # resID
    ELSE 0

FindUserReservation(rs, resID, username) ==
    LET IsIt(r) == r.reservationID = resID /\ r.username = username
    IN IF \E i \in DOMAIN rs : IsIt(rs[i])
       THEN CHOOSE i \in DOMAIN rs : IsIt(rs[i]) /\ \A j \in 1..(i - 1) : ~IsIt(rs[j])
       ELSE 0

----------------------------------------------------------------------------
(* The handlers as functions of the lists they read and write *)

loginUser_AnyRole(us, username, password, expectedAdmin) ==
    IF \E i \in DOMAIN us : us[i].username = username /\ us[i].password = password
    THEN expectedAdmin
    ELSE -1

loginUser(us, username, password, expectedAdmin) ==
    LET IsIt(u) == u.username = username /\ u.password = password
    IN IF \E i \in DOMAIN us : IsIt(us[i])
       THEN LET current == us[CHOOSE i \in DOMAIN us :
                                    IsIt(us[i]) /\ \A j \in 1..(i - 1) : ~IsIt(us[j])]
            IN IF current.isAdmin = expectedAdmin THEN current.isAdmin ELSE -1
       ELSE -1

registerUser(us, username, password, isAdmin) ==
    IF \E i \in DOMAIN us : us[i].username = username
    THEN us
    ELSE Append(us, [username |-> username, password |-> password, isAdmin |-> isAdmin])

deleteUser(us, id) == IF id \in DOMAIN us THEN RemoveAt(us, id) ELSE us

addFlight_NoCheck(fl, flightNumber, origin, destination, departureTime, arrivalTime, seats) ==
    <<[flightNumber |-> flightNumber, origin |-> origin,
       destination |-> destination, departureTime |-> departureTime,
       arrivalTime |-> arrivalTime, seatsAvailable |-> seats]>> \o fl

addFlight(fl, flightNumber, origin, destination, departureTime, arrivalTime, seats) ==
    IF flightExists(fl, flightNumber)
    THEN fl
    ELSE <<[flightNumber |-> flightNumber, origin |-> origin,
            destination |-> destination, departureTime |-> departureTime,
            arrivalTime |-> arrivalTime, seatsAvailable |-> seats]>> \o fl

deleteFlight(fl, flightNumber) ==
    IF flightExists(fl, flightNumber)
    THEN RemoveAt(fl, FlightAt(fl, flightNumber))
    ELSE fl

editFlight(fl, flightNumber, origin, destination, departureTime, arrivalTime, seats) ==
    IF flightExists(fl, flightNumber)
    THEN [fl EXCEPT ![FlightAt(fl, flightNumber)] =
             [flightNumber |-> flightNumber, origin |-> origin,
              destination |-> destination, departureTime |-> departureTime,
              arrivalTime |-> arrivalTime, seatsAvailable |-> seats]]
    ELSE fl

addHotel(hl, hotelID, name, location, rooms) ==
    IF hotelExists(hl, hotelID)
    THEN hl
    ELSE <<[hotelID |-> hotelID, name |-> name, location |-> location,
            roomsAvailable |-> rooms]>> \o hl

deleteHotel(hl, hotelID) ==
    IF hotelExists(hl, hotelID)
    THEN RemoveAt(hl, HotelAt(hl, hotelID))
    ELSE hl

editHotel(hl, hotelID, name, location, rooms) ==
    IF hotelExists(hl, hotelID)
    THEN [hl EXCEPT ![HotelAt(hl, hotelID)] =
             [hotelID |-> hotelID, name |-> name, location |-> location,
              roomsAvailable |-> rooms]]
    ELSE hl

(* makeFlightReservation / makeHotelReservation: whether the request gets past
   the exit input and the availability test *)
FlightBookingAccepted(fl, rs, flightNumber) ==
    flightNumber # ExitInput /\ calculateAvailableSeats(fl, rs, flightNumber) > 0

HotelBookingAccepted(hl, rs, hotelID) ==
    hotelID # ExitInput /\ calculateAvailableRooms(hl, rs, hotelID) > 0

NewStatus == "Pending"

makeFlightReservation(rs, fl, id, username, flightNumber) ==
    IF FlightBookingAccepted(fl, rs, flightNumber)
    THEN <<[reservationID |-> id, username |-> username,
            flightNumber |-> flightNumber, hotelID |-> NoTarget,
            status |-> NewStatus]>> \o rs
    ELSE rs

makeHotelReservation(rs, hl, id, username, hotelID) ==
    IF HotelBookingAccepted(hl, rs, hotelID)
    THEN <<[reservationID |-> id, username |-> username,
            flightNumber |-> NoTarget, hotelID |-> hotelID,
            status |-> NewStatus]>> \o rs
    ELSE rs

cancelUserReservation_AnyStatus(rs, resID, username) ==
    LET i == FindUserReservation(rs, resID, username)
    IN IF resID = ExitInput \/ i = 0 THEN rs
       ELSE [rs EXCEPT ![i].status = "Cancel Requested"]

cancelUserReservation_AnyUser(rs, resID, username) ==
    LET i == FindReservation(rs, resID)
    IN IF resID = ExitInput \/ i = 0 THEN rs
       ELSE IF rs[i].status = "Approved"
            THEN [rs EXCEPT ![i].status = "Cancel Requested"]
            ELSE rs

cancelUserReservation(rs, resID, username) ==
    LET i == FindUserReservation(rs, resID, username)
    IN IF resID = ExitInput \/ i = 0 THEN rs
       ELSE IF rs[i].status = "Approved"
            THEN [rs EXCEPT ![i].status = "Cancel Requested"]
            ELSE rs

handleReservationApproval_ElseRejects(rs, resID, decision) ==
    LET i == FindReservation(rs, resID)
    IN IF resID = ExitInput \/ i = 0 THEN rs
       ELSE IF decision = "yes" THEN [rs EXCEPT ![i].status = "Approved"]
       ELSE [rs EXCEPT ![i].status = "Rejected"]

handleReservationApproval(rs, resID, decision) ==
    LET i == FindReservation(rs, resID)
    IN IF resID = ExitInput \/ i = 0 THEN rs
       ELSE IF decision = "yes" THEN [rs EXCEPT ![i].status = "Approved"]
       ELSE IF decision = "no" THEN [rs EXCEPT ![i].status = "Rejected"]
       ELSE rs

handleCancellationRequests_Canceled(rs, resID, decision) ==
    LET i == FindReservation(rs, resID)
    IN IF resID = ExitInput \/ i = 0 THEN rs
       ELSE IF decision = "exit" THEN rs
       ELSE IF decision = "yes" THEN [rs EXCEPT ![i].status = "Canceled"]
       ELSE IF decision = "no" THEN [rs EXCEPT ![i].status = "Approved"]
       ELSE rs

handleCancellationRequests(rs, resID, decision) ==
    LET i == FindReservation(rs, resID)
    IN IF resID = ExitInput \/ i = 0 THEN rs
       ELSE IF decision = "exit" THEN rs
       ELSE IF decision = "yes" THEN [rs EXCEPT ![i].status = "Cancelled"]
       ELSE IF decision = "no" THEN [rs EXCEPT ![i].status = "Approved"]
       ELSE rs

----------------------------------------------------------------------------
(* The process *)

Init ==
    /\ pc = "mainMenu"
    /\ currentUser = ""
    /\ head = <<>>
    /\ flightsHead = <<>>
    /\ hotelsHead = <<>>
    /\ reservationsHead = <<>>
    /\ lastID = 0
    /\ usersFile = NoFile
    /\ flightsFile = NoFile
    /\ hotelsFile = NoFile
    /\ reservationsFile = NoFile
    /\ lastIdFile = NoIdFile
    /\ issued = <<>>
    /\ crossSession = FALSE
    /\ atExit = NoSnapshot
    /\ startedAtBase = TRUE
    /\ adminChoice = 0

(* main(): the five loads, then the main menu *)
Start ==
    /\ pc = "off"
    /\ head' = loadUsers(usersFile)
    /\ flightsHead' = loadFlightsFromFile(flightsFile)
    /\ hotelsHead' = loadHotelsFromFile(hotelsFile)
    /\ reservationsHead' = loadReservationsFromFile(reservationsFile)
    /\ lastID' = 0
    /\ currentUser' = ""
    /\ pc' = "mainMenu"
    /\ UNCHANGED files
    /\ NoCreation
    /\ NoAdminExit
    /\ atExit' = atExit
    /\ startedAtBase' = ~lastIdFile.exists

ProcessGone ==
    /\ pc' = "off"
    /\ currentUser' = ""
    /\ head' = <<>>
    /\ flightsHead' = <<>>
    /\ hotelsHead' = <<>>
    /\ reservationsHead' = <<>>
    /\ lastID' = 0
    /\ startedAtBase' = FALSE

(* the process stops while it waits at a prompt: nothing is saved *)
Stop ==
    /\ pc # "off"
    /\ ProcessGone
    /\ UNCHANGED files
    /\ NoCreation
    /\ NoAdminExit
    /\ NoExit

(* mainMenu *)

AdminLogin(username, password) ==
    /\ pc = "mainMenu"
    /\ IF loginUser(head, username, password, 1) = 1
       THEN pc' = "adminMenu" /\ currentUser' = username
       ELSE UNCHANGED <<pc, currentUser>>
    /\ UNCHANGED <<head, flightsHead, hotelsHead, reservationsHead, lastID>>
    /\ UNCHANGED files
    /\ NoCreation
    /\ NoAdminExit
    /\ NoExit
    /\ UNCHANGED startedAtBase

UserLogin(username, password) ==
    /\ pc = "mainMenu"
    /\ IF loginUser(head, username, password, 0) = 0
       THEN pc' = "userMenu" /\ currentUser' = username
       ELSE UNCHANGED <<pc, currentUser>>
    /\ UNCHANGED <<head, flightsHead, hotelsHead, reservationsHead, lastID>>
    /\ UNCHANGED files
    /\ NoCreation
    /\ NoAdminExit
    /\ NoExit
    /\ UNCHANGED startedAtBase

RegisterUser(username, password, isAdmin) ==
    /\ pc = "mainMenu"
    /\ head' = registerUser(head, username, password, isAdmin)
    /\ usersFile' = IF head' # head THEN saveUsers(head') ELSE usersFile
    /\ UNCHANGED <<pc, currentUser, flightsHead, hotelsHead, reservationsHead, lastID>>
    /\ UNCHANGED <<flightsFile, hotelsFile, reservationsFile, lastIdFile>>
    /\ NoCreation
    /\ NoAdminExit
    /\ NoExit
    /\ UNCHANGED startedAtBase

(* option 4.  The ID drawn here is written to last_id.txt and given to no
   reservation: a process that has drawn every ID up to the bound can still
   leave. *)
Exit ==
    /\ pc = "mainMenu"
    /\ generateReservationID(lastID, lastIdFile) <= MaxLastID + 1
    /\ usersFile' = saveUsers(head)
    /\ flightsFile' = saveFlightsToFile(flightsHead)
    /\ hotelsFile' = saveHotelsToFile(hotelsHead)
    /\ reservationsFile' = saveReservationsToFile(reservationsHead)
    /\ lastIdFile' = saveLastReservationID(generateReservationID(lastID, lastIdFile))
    /\ ProcessGone
    /\ NoCreation
    /\ NoAdminExit
    /\ atExit' = [taken |-> TRUE, users |-> head, flights |-> flightsHead,
                  hotels |-> hotelsHead, reservations |-> reservationsHead]

(* adminMenu *)

ManageFlights ==
    /\ pc = "adminMenu"
    /\ pc' = "manageFlights"
    /\ UNCHANGED memory
    /\ UNCHANGED files
    /\ NoCreation
    /\ NoAdminExit
    /\ NoExit
    /\ UNCHANGED startedAtBase

ManageHotels ==
    /\ pc = "adminMenu"
    /\ pc' = "manageHotels"
    /\ UNCHANGED memory
    /\ UNCHANGED files
    /\ NoCreation
    /\ NoAdminExit
    /\ NoExit
    /\ UNCHANGED startedAtBase

DeleteUser(id) ==
    /\ pc = "adminMenu"
    /\ head' = deleteUser(head, id)
    /\ usersFile' = IF id \in DOMAIN head THEN saveUsers(head') ELSE usersFile
    /\ UNCHANGED <<pc, currentUser, flightsHead, hotelsHead, reservationsHead, lastID>>
    /\ UNCHANGED <<flightsFile, hotelsFile, reservationsFile, lastIdFile>>
    /\ NoCreation
    /\ NoAdminExit
    /\ NoExit
    /\ UNCHANGED startedAtBase

HandleReservationApproval(resID, decision) ==
    /\ pc = "adminMenu"
    /\ reservationsHead' = handleReservationApproval(reservationsHead, resID, decision)
    /\ reservationsFile' =
          IF resID = ExitInput \/ FindReservation(reservationsHead, resID) = 0
          THEN reservationsFile
          ELSE saveReservationsToFile(reservationsHead')
    /\ UNCHANGED <<pc, currentUser, head, flightsHead, hotelsHead, lastID>>
    /\ UNCHANGED <<usersFile, flightsFile, hotelsFile, lastIdFile>>
    /\ NoCreation
    /\ NoAdminExit
    /\ NoExit
    /\ UNCHANGED startedAtBase

HandleCancellationRequests(resID, decision) ==
    /\ pc = "adminMenu"
    /\ reservationsHead' = handleCancellationRequests(reservationsHead, resID, decision)
    /\ reservationsFile' =
          IF \/ resID = ExitInput
             \/ FindReservation(reservationsHead, resID) = 0
             \/ decision = "exit"
          THEN reservationsFile
          ELSE saveReservationsToFile(reservationsHead')
    /\ UNCHANGED <<pc, currentUser, head, flightsHead, hotelsHead, lastID>>
    /\ UNCHANGED <<usersFile, flightsFile, hotelsFile, lastIdFile>>
    /\ NoCreation
    /\ NoAdminExit
    /\ NoExit
    /\ UNCHANGED startedAtBase

(* scanf("%s", decision) into char decision[10]: an answer of 10 characters
   or more writes past the array.  It is neither "yes" nor "no", so no status
   is written; the function either goes on as for any other invalid answer
   (HandleReservationApproval with "other") or, the stack being damaged, the
   process ends when the function returns, after saveReservationsToFile. *)
ApprovalAnswerOverflow(resID) ==
    /\ pc = "adminMenu"
    /\ resID # ExitInput
    /\ FindReservation(reservationsHead, resID) # 0
    /\ reservationsFile' = saveReservationsToFile(reservationsHead)
    /\ ProcessGone
    /\ UNCHANGED <<usersFile, flightsFile, hotelsFile, lastIdFile>>
    /\ NoCreation
    /\ NoAdminExit
    /\ NoExit

(* option 7 writes the report and then ends the do-while (choice != 7) *)
ReservationsReport ==
    /\ pc = "adminMenu"
    /\ pc' = "mainMenu"
    /\ UNCHANGED memory
    /\ UNCHANGED files
    /\ NoCreation
    /\ adminChoice' = 7
    /\ NoExit
    /\ UNCHANGED startedAtBase

AdminLogout ==
    /\ pc = "adminMenu"
    /\ reservationsFile' = saveReservationsToFile(reservationsHead)
    /\ pc' = "mainMenu"
    /\ UNCHANGED memory
    /\ UNCHANGED <<usersFile, flightsFile, hotelsFile, lastIdFile>>
    /\ NoCreation
    /\ adminChoice' = 8
    /\ NoExit
    /\ UNCHANGED startedAtBase

(* manageFlights *)

AddFlight(flightNumber, origin, destination, departureTime, arrivalTime, seats) ==
    /\ pc = "manageFlights"
    /\ flightsHead' = addFlight(flightsHead, flightNumber, origin, destination,
                                departureTime, arrivalTime, seats)
    /\ UNCHANGED <<pc, currentUser, head, hotelsHead, reservationsHead, lastID>>
    /\ UNCHANGED files
    /\ NoCreation
    /\ NoAdminExit
    /\ NoExit
    /\ UNCHANGED startedAtBase

DeleteFlight(flightNumber) ==
    /\ pc = "manageFlights"
    /\ flightsHead' = deleteFlight(flightsHead, flightNumber)
    /\ UNCHANGED <<pc, currentUser, head, hotelsHead, reservationsHead, lastID>>
    /\ UNCHANGED files
    /\ NoCreation
    /\ NoAdminExit
    /\ NoExit
    /\ UNCHANGED startedAtBase

EditFlight(flightNumber, origin, destination, departureTime, arrivalTime, seats) ==
    /\ pc = "manageFlights"
    /\ flightsHead' = editFlight(flightsHead, flightNumber, origin, destination,
                                 departureTime, arrivalTime, seats)
    /\ UNCHANGED <<pc, currentUser, head, hotelsHead, reservationsHead, lastID>>
    /\ UNCHANGED files
    /\ NoCreation
    /\ NoAdminExit
    /\ NoExit
    /\ UNCHANGED startedAtBase

ReturnFromFlights ==
    /\ pc = "manageFlights"
    /\ flightsFile' = saveFlightsToFile(flightsHead)
    /\ pc' = "adminMenu"
    /\ UNCHANGED memory
    /\ UNCHANGED <<usersFile, hotelsFile, reservationsFile, lastIdFile>>
    /\ NoCreation
    /\ NoAdminExit
    /\ NoExit
    /\ UNCHANGED startedAtBase

(* manageHotels *)

AddHotel(hotelID, name, location, rooms) ==
    /\ pc = "manageHotels"
    /\ hotelsHead' = addHotel(hotelsHead, hotelID, name, location, rooms)
    /\ UNCHANGED <<pc, currentUser, head, flightsHead, reservationsHead, lastID>>
    /\ UNCHANGED files
    /\ NoCreation
    /\ NoAdminExit
    /\ NoExit
    /\ UNCHANGED startedAtBase

DeleteHotel(hotelID) ==
    /\ pc = "manageHotels"
    /\ hotelsHead' = deleteHotel(hotelsHead, hotelID)
    /\ UNCHANGED <<pc, currentUser, head, flightsHead, reservationsHead, lastID>>
    /\ UNCHANGED files
    /\ NoCreation
    /\ NoAdminExit
    /\ NoExit
    /\ UNCHANGED startedAtBase

EditHotel(hotelID, name, location, rooms) ==
    /\ pc = "manageHotels"
    /\ hotelsHead' = editHotel(hotelsHead, hotelID, name, location, rooms)
    /\ UNCHANGED <<pc, currentUser, head, flightsHead, reservationsHead, lastID>>
    /\ UNCHANGED files
    /\ NoCreation
    /\ NoAdminExit
    /\ NoExit
    /\ UNCHANGED startedAtBase

ReturnFromHotels ==
    /\ pc = "manageHotels"
    /\ hotelsFile' = saveHotelsToFile(hotelsHead)
    /\ pc' = "adminMenu"
    /\ UNCHANGED memory
    /\ UNCHANGED <<usersFile, flightsFile, reservationsFile, lastIdFile>>
    /\ NoCreation
    /\ NoAdminExit
    /\ NoExit
    /\ UNCHANGED startedAtBase

(* userMenu *)

(* option 3: makeFlightReservation(currentUser), then
   saveLastReservationID(generateReservationID(1)) *)
BookFlight(flightNumber) ==
    LET accepted == FlightBookingAccepted(flightsHead, reservationsHead, flightNumber)
        id == generateReservationID(lastID, lastIdFile)
        newResID == generateReservationID(IF accepted THEN id ELSE lastID, lastIdFile)
    IN /\ pc = "userMenu"
       /\ newResID <= MaxLastID
       /\ accepted => Len(reservationsHead) < MaxReservations
       /\ reservationsHead' = makeFlightReservation(reservationsHead, flightsHead, id,
                                                    currentUser, flightNumber)
       /\ reservationsFile' = IF accepted THEN saveReservationsToFile(reservationsHead')
                              ELSE reservationsFile
       /\ lastID' = newResID
       /\ lastIdFile' = saveLastReservationID(newResID)
       /\ UNCHANGED <<pc, currentUser, head, flightsHead, hotelsHead>>
       /\ UNCHANGED <<usersFile, flightsFile, hotelsFile>>
       /\ issued' = IF accepted THEN Append(issued, Head(reservationsHead').reservationID)
                    ELSE issued
       /\ crossSession' = (accepted /\ lastID = 0 /\ issued # <<>>)
       /\ NoExit
       /\ NoAdminExit
       /\ startedAtBase' = (startedAtBase /\ ~accepted)

(* option 4: makeHotelReservation(currentUser), then the same two calls *)
BookHotel(hotelID) ==
    LET accepted == HotelBookingAccepted(hotelsHead, reservationsHead, hotelID)
        id == generateReservationID(lastID, lastIdFile)
        newResID == generateReservationID(IF accepted THEN id ELSE lastID, lastIdFile)
    IN /\ pc = "userMenu"
       /\ newResID <= MaxLastID
       /\ accepted => Len(reservationsHead) < MaxReservations
       /\ reservationsHead' = makeHotelReservation(reservationsHead, hotelsHead, id,
                                                   currentUser, hotelID)
       /\ reservationsFile' = IF accepted THEN saveReservationsToFile(reservationsHead')
                              ELSE reservationsFile
       /\ lastID' = newResID
       /\ lastIdFile' = saveLastReservationID(newResID)
       /\ UNCHANGED <<pc, currentUser, head, flightsHead, hotelsHead>>
       /\ UNCHANGED <<usersFile, flightsFile, hotelsFile>>
       /\ issued' = IF accepted THEN Append(issued, Head(reservationsHead').reservationID)
                    ELSE issued
       /\ crossSession' = (accepted /\ lastID = 0 /\ issued # <<>>)
       /\ NoExit
       /\ NoAdminExit
       /\ startedAtBase' = (startedAtBase /\ ~accepted)

CancelUserReservation(resID) ==
    /\ pc = "userMenu"
    /\ reservationsHead' = cancelUserReservation(reservationsHead, resID, currentUser)
    /\ reservationsFile' = IF reservationsHead' # reservationsHead
                           THEN saveReservationsToFile(reservationsHead')
                           ELSE reservationsFile
    /\ UNCHANGED <<pc, currentUser, head, flightsHead, hotelsHead, lastID>>
    /\ UNCHANGED <<usersFile, flightsFile, hotelsFile, lastIdFile>>
    /\ NoCreation
    /\ NoAdminExit
    /\ NoExit
    /\ UNCHANGED startedAtBase

UserLogout ==
    /\ pc = "userMenu"
    /\ currentUser' = ""
    /\ reservationsFile' = saveReservationsToFile(reservationsHead)
    /\ pc' = "mainMenu"
    /\ UNCHANGED <<head, flightsHead, hotelsHead, reservationsHead, lastID>>
    /\ UNCHANGED <<usersFile, flightsFile, hotelsFile, lastIdFile>>
    /\ NoCreation
    /\ NoAdminExit
    /\ NoExit
    /\ UNCHANGED startedAtBase

----------------------------------------------------------------------------
(* Specifications *)

Accounts == {<<"root", "pw", 1>>, <<"ana", "pw", 0>>}
Logins == {<<"root", "pw">>, <<"ana", "pw">>, <<"ana", "no">>}

Booking(FN, HN) ==
    \/ Start
    \/ Stop
    \/ \E l \in Logins : AdminLogin(l[1], l[2])
    \/ \E l \in Logins : UserLogin(l[1], l[2])
    \/ \E a \in Accounts : RegisterUser(a[1], a[2], a[3])
    \/ Exit
    \/ ManageFlights
    \/ ManageHotels
    \/ \E r \in ReservationInputs, d \in Decisions : HandleReservationApproval(r, d)
    \/ \E r \in ReservationInputs : ApprovalAnswerOverflow(r)
    \/ \E r \in ReservationInputs, d \in Decisions : HandleCancellationRequests(r, d)
    \/ ReservationsReport
    \/ AdminLogout
    \/ \E n \in FN, t \in Texts, c \in Capacities : AddFlight(n, t, t, t, t, c)
    \/ ReturnFromFlights
    \/ \E n \in HN, t \in Texts, c \in Capacities : AddHotel(n, t, t, c)
    \/ ReturnFromHotels
    \/ \E n \in FN \cup {ExitInput} : BookFlight(n)
    \/ \E n \in HN \cup {ExitInput} : BookHotel(n)
    \/ \E r \in ReservationInputs : CancelUserReservation(r)
    \/ UserLogout

Editing(FN, HN) ==
    \/ \E i \in 1..(Cardinality(Usernames) + 1) : DeleteUser(i)
    \/ \E n \in FN : DeleteFlight(n)
    \/ \E n \in FN, t \in Texts, c \in Capacities : EditFlight(n, t, t, t, t, c)
    \/ \E n \in HN : DeleteHotel(n)
    \/ \E n \in HN, t \in Texts, c \in Capacities : EditHotel(n, t, t, c)

Next == Booking({1}, {1}) \/ Editing({1}, {1})

Spec == Init /\ [][Next]_vars

(* no flight or hotel is edited or deleted, no user is deleted *)
NextNoEdit == Booking({1}, {1})

SpecNoEdit == Init /\ [][NextNoEdit]_vars

(* the keys that coincide with the "not applicable" value of a reservation and
   with the exit input of the booking prompts *)
NextKeys == Booking({NoTarget, ExitInput}, {1})

SpecKeys == Init /\ [][NextKeys]_vars

(* the administrator builds the catalog: two flight numbers, one hotel ID, any
   text at the first fgets prompt of a record *)
CatalogKeys == {1, 2}

NextCatalog ==
    \/ Start
    \/ Stop
    \/ \E l \in Logins : AdminLogin(l[1], l[2])
    \/ \E a \in Accounts : RegisterUser(a[1], a[2], a[3])
    \/ Exit
    \/ ManageFlights
    \/ ManageHotels
    \/ \E i \in 1..(Cardinality(Usernames) + 1) : DeleteUser(i)
    \/ ReservationsReport
    \/ AdminLogout
    \/ \E n \in CatalogKeys, o \in AllTexts, t \in Texts : AddFlight(n, o, t, t, t, 1)
    \/ \E n \in CatalogKeys : DeleteFlight(n)
    \/ \E n \in CatalogKeys, o \in AllTexts, t \in Texts : EditFlight(n, o, t, t, t, 1)
    \/ ReturnFromFlights
    \/ \E o \in AllTexts, t \in Texts : AddHotel(1, o, t, 1)
    \/ DeleteHotel(1)
    \/ \E o \in AllTexts, t \in Texts : EditHotel(1, o, t, 1)
    \/ ReturnFromHotels

SpecCatalog == Init /\ [][NextCatalog]_vars

(* two ordinary users book the same flight and ask for cancellations *)
TwoUserAccounts == {<<"root", "pw", 1>>, <<"ana", "pw", 0>>, <<"bob", "pw", 0>>}

NextTwoUsers ==
    \/ Start
    \/ Stop
    \/ \E a \in TwoUserAccounts : RegisterUser(a[1], a[2], a[3])
    \/ \E a \in TwoUserAccounts : AdminLogin(a[1], a[2])
    \/ \E a \in TwoUserAccounts : UserLogin(a[1], a[2])
    \/ ManageFlights
    \/ \E t \in Texts : AddFlight(1, t, t, t, t, 2)
    \/ ReturnFromFlights
    \/ Exit
    \/ \E r \in ReservationInputs, d \in {"yes", "no"} : HandleReservationApproval(r, d)
    \/ \E r \in ReservationInputs, d \in {"yes", "no"} : HandleCancellationRequests(r, d)
    \/ AdminLogout
    \/ BookFlight(1)
    \/ \E r \in ReservationInputs : CancelUserReservation(r)
    \/ UserLogout

SpecTwoUsers == Init /\ [][NextTwoUsers]_vars

----------------------------------------------------------------------------
(* Properties *)

KeyInputs == {NoTarget, ExitInput, 1}

FlightOf(n) == flightsHead[FlightAt(flightsHead, n)]

HotelOf(n) == hotelsHead[HotelAt(hotelsHead, n)]

Held(field, key, statuses) ==
    Cardinality({i \in DOMAIN reservationsHead :
                    /\ reservationsHead[i][field] = key
                    /\ reservationsHead[i].status \in statuses})

Created == Len(issued') = Len(issued) + 1

(* C1: with no flight or hotel edited or deleted, the Approved reservations of
   each flight never outnumber its seatsAvailable, and the Approved
   reservations of each hotel never outnumber its roomsAvailable. *)
NoOverbooking ==
    /\ \A i \in DOMAIN flightsHead :
          Held("flightNumber", flightsHead[i].flightNumber, {"Approved"})
             <= flightsHead[i].seatsAvailable
    /\ \A i \in DOMAIN hotelsHead :
          Held("hotelID", hotelsHead[i].hotelID, {"Approved"})
             <= hotelsHead[i].roomsAvailable

(* C2: a booking for a flight (hotel) whose Pending plus Approved reservations
   already reach its capacity is refused, and a booking is accepted only when
   the user listing shows at least one place for it. *)
BookingCountsPendingAndApproved ==
    [][ /\ \A n \in KeyInputs :
             BookFlight(n) /\ flightExists(flightsHead, n) =>
                /\ Held("flightNumber", n, {"Pending", "Approved"})
                      >= FlightOf(n).seatsAvailable => ~Created
                /\ Created => listFlightsUser(reservationsHead, FlightOf(n)) >= 1
        /\ \A n \in KeyInputs :
             BookHotel(n) /\ hotelExists(hotelsHead, n) =>
                /\ Held("hotelID", n, {"Pending", "Approved"})
                      >= HotelOf(n).roomsAvailable => ~Created
                /\ Created => listHotelsUser(reservationsHead, HotelOf(n)) >= 1
      ]_vars

(* C3: a cancellation request for a reservation of the logged-in user turns
   Approved into "Cancel Requested"; in every other status it is refused; in
   both cases every other reservation, and every other field, is unchanged. *)
CancelOnlyFromApproved ==
    [][ \A r \in ReservationInputs :
          CancelUserReservation(r) =>
             /\ Len(reservationsHead') = Len(reservationsHead)
             /\ \A i \in DOMAIN reservationsHead :
                   IF /\ reservationsHead[i].reservationID = r
                      /\ reservationsHead[i].username = currentUser
                      /\ reservationsHead[i].status = "Approved"
                   THEN reservationsHead'[i] =
                           [reservationsHead[i] EXCEPT !.status = "Cancel Requested"]
                   ELSE reservationsHead'[i] = reservationsHead[i]
      ]_vars

CancelRequested ==
    /\ pc = "userMenu"
    /\ \E i \in DOMAIN reservationsHead :
          /\ reservationsHead[i].username = currentUser
          /\ reservationsHead[i].status = "Cancel Requested"

(* C4: every reservation created gets an ID greater than the ID of every
   reservation created before it, in the same or an earlier process. *)
IdsStrictlyIncreasing ==
    \A j, k \in DOMAIN issued : j < k => issued[j] < issued[k]

CreatedAfterRestart == crossSession /\ Len(issued) >= 2

(* C5: no two reservations of the list have the same reservationID. *)
UniqueReservationIDs ==
    \A i, j \in DOMAIN reservationsHead :
       i # j => reservationsHead[i].reservationID # reservationsHead[j].reservationID

TwoReservationsReloaded ==
    pc = "mainMenu" /\ lastID = 0 /\ Len(reservationsHead) >= 2

(* C6: creating a Pending reservation changes no computed availability; the
   approval of a Pending reservation lowers the computed availability of the
   flight (hotel) it is for by exactly one and changes that of no other
   flight or hotel.  A reservation is for flight n when makeFlightReservation
   wrote it (hotelID not applicable), for hotel n when makeHotelReservation
   wrote it (flightNumber not applicable). *)
IsForFlight(r, n) == r.flightNumber = n /\ r.hotelID = NoTarget

IsForHotel(r, n) == r.hotelID = n /\ r.flightNumber = NoTarget

AvailabilityFollowsApproval ==
    [][ /\ Created =>
             /\ \A i \in DOMAIN flightsHead :
                   calculateAvailableSeats(flightsHead', reservationsHead',
                                           flightsHead[i].flightNumber)
                    = calculateAvailableSeats(flightsHead, reservationsHead,
                                              flightsHead[i].flightNumber)
             /\ \A i \in DOMAIN hotelsHead :
                   calculateAvailableRooms(hotelsHead', reservationsHead',
                                           hotelsHead[i].hotelID)
                    = calculateAvailableRooms(hotelsHead, reservationsHead,
                                              hotelsHead[i].hotelID)
        /\ \A r \in ReservationInputs :
             LET k == FindReservation(reservationsHead, r)
             IN (/\ HandleReservationApproval(r, "yes")
                 /\ k # 0
                 /\ reservationsHead[k].status = "Pending") =>
                   /\ \A i \in DOMAIN flightsHead :
                         LET n == flightsHead[i].flightNumber
                         IN calculateAvailableSeats(flightsHead', reservationsHead', n)
                             = calculateAvailableSeats(flightsHead, reservationsHead, n)
                               - (IF IsForFlight(reservationsHead[k], n) THEN 1 ELSE 0)
                   /\ \A i \in DOMAIN hotelsHead :
                         LET n == hotelsHead[i].hotelID
                         IN calculateAvailableRooms(hotelsHead', reservationsHead', n)
                             = calculateAvailableRooms(hotelsHead, reservationsHead, n)
                               - (IF IsForHotel(reservationsHead[k], n) THEN 1 ELSE 0)
      ]_vars

(* C7: a booking creates a reservation exactly when the flight (hotel) exists
   and its capacity minus its Approved reservations is at least 1; the
   reservation created is the only change to the list, Pending, owned by the
   logged-in user and for that flight (hotel); a refusal changes nothing. *)
NewReservation(target) ==
    /\ Len(reservationsHead') = Len(reservationsHead) + 1
    /\ Tail(reservationsHead') = reservationsHead
    /\ Head(reservationsHead') =
          [target EXCEPT !.reservationID = Head(reservationsHead').reservationID,
                         !.username = currentUser,
                         !.status = "Pending"]

NoTargets ==
    [reservationID |-> 0, username |-> "", flightNumber |-> NoTarget,
     hotelID |-> NoTarget, status |-> ""]

BookingEnforcesCapacity ==
    [][ /\ \A n \in KeyInputs :
             BookFlight(n) =>
                IF /\ flightExists(flightsHead, n)
                   /\ FlightOf(n).seatsAvailable
                         - Held("flightNumber", n, {"Approved"}) >= 1
                THEN NewReservation([NoTargets EXCEPT !.flightNumber = n])
                ELSE reservationsHead' = reservationsHead
        /\ \A n \in KeyInputs :
             BookHotel(n) =>
                IF /\ hotelExists(hotelsHead, n)
                   /\ HotelOf(n).roomsAvailable
                         - Held("hotelID", n, {"Approved"}) >= 1
                THEN NewReservation([NoTargets EXCEPT !.hotelID = n])
                ELSE reservationsHead' = reservationsHead
      ]_vars

(* C8: every reservation has exactly one of flightNumber and hotelID set, the
   other being -1. *)
ExactlyOneTarget ==
    \A i \in DOMAIN reservationsHead :
       (reservationsHead[i].flightNumber # NoTarget)
          # (reservationsHead[i].hotelID # NoTarget)

(* C9: the status of every reservation is one of the five statuses, and a
   reservation is created with status Pending. *)
StatusesValid ==
    /\ [](\A i \in DOMAIN reservationsHead : reservationsHead[i].status \in Statuses)
    /\ [][Created => Head(reservationsHead').status = "Pending"]_vars

CancelledReached ==
    \E i \in DOMAIN reservationsHead : reservationsHead[i].status = "Cancelled"

(* C10: for every reservation of the list there is a user in the user list
   with the reservation's username. *)
ReservationsReferenceUsers ==
    \A i \in DOMAIN reservationsHead :
       \E j \in DOMAIN head : head[j].username = reservationsHead[i].username

(* C11: no two users have the same username, no two flights the same
   flightNumber, no two hotels the same hotelID; a registration with a
   username already in the list, and an addFlight / addHotel with a key
   already in the list, leave the list as it was. *)
RefusedAddChangesNothing ==
    /\ \A a \in Accounts :
          (/\ RegisterUser(a[1], a[2], a[3])
           /\ \E i \in DOMAIN head : head[i].username = a[1])
             => head' = head /\ usersFile' = usersFile
    /\ \A n \in CatalogKeys :
          (/\ flightExists(flightsHead, n)
           /\ \E o \in AllTexts, t \in Texts : AddFlight(n, o, t, t, t, 1))
             => flightsHead' = flightsHead
    /\ \A n \in CatalogKeys :
          (/\ hotelExists(hotelsHead, n)
           /\ \E o \in AllTexts, t \in Texts : AddHotel(n, o, t, 1))
             => hotelsHead' = hotelsHead

BinaryRoundTrip ==
    atExit.taken /\ pc = "mainMenu" =>
       /\ head = atExit.users
       /\ reservationsHead = atExit.reservations

RestartedWithData ==
    /\ atExit.taken
    /\ pc = "mainMenu"
    /\ Len(head) >= 2
    /\ Len(reservationsHead) >= 2
    /\ reservationsHead[1].status # reservationsHead[2].status

(* C13: after leaving through option 4 of the main menu and starting again,
   the flight list and the hotel list are the lists the process held when it
   left, whatever text was entered for their fields. *)
TextRoundTrip ==
    atExit.taken /\ pc = "mainMenu" =>
       /\ flightsHead = atExit.flights
       /\ hotelsHead = atExit.hotels

(* C14: a start of the process reaches the main menu with an empty collection
   for each of users.dat, flights.txt, hotels.txt, reservations.dat that is
   absent; every reservation ID is greater than 1000; in a process that found
   no last_id.txt when it started, the first reservation created has ID 1001. *)
StartWithoutFile ==
    Start =>
       /\ pc' = "mainMenu"
       /\ ~usersFile.exists => head' = <<>>
       /\ ~flightsFile.exists => flightsHead' = <<>>
       /\ ~hotelsFile.exists => hotelsHead' = <<>>
       /\ ~reservationsFile.exists => reservationsHead' = <<>>

IdsAboveBase ==
    \A i \in DOMAIN reservationsHead : reservationsHead[i].reservationID > BaseID

FirstIdAfterBase ==
    Created /\ startedAtBase => Head(reservationsHead').reservationID = BaseID + 1

MissingFileStartsEmpty ==
    /\ [][StartWithoutFile]_vars
    /\ []IdsAboveBase
    /\ [][FirstIdAfterBase]_vars

(* C15: handleReservationApproval changes the status of no reservation whose
   status is not Pending. *)
ApprovalOnlyFromPending ==
    [][ \A r \in ReservationInputs, d \in Decisions :
          HandleReservationApproval(r, d) =>
             /\ Len(reservationsHead') = Len(reservationsHead)
             /\ \A i \in DOMAIN reservationsHead :
                   reservationsHead[i].status # "Pending"
                      => reservationsHead'[i] = reservationsHead[i]
      ]_vars

(* C16: handleCancellationRequests changes the status of no reservation whose
   status is not "Cancel Requested". *)
CancellationOnlyFromRequested ==
    [][ \A r \in ReservationInputs, d \in Decisions :
          HandleCancellationRequests(r, d) =>
             /\ Len(reservationsHead') = Len(reservationsHead)
             /\ \A i \in DOMAIN reservationsHead :
                   reservationsHead[i].status # "Cancel Requested"
                      => reservationsHead'[i] = reservationsHead[i]
      ]_vars

(* C17: a login enters the administrator menu only if a user of the list has
   the entered username and password and isAdmin = 1, the user menu only if
   such a user has isAdmin = 0; a login that enters no menu leaves pc and
   currentUser as they were; the menus are entered from the main menu by
   nothing but such a login. *)
Registered(username, password, isAdmin) ==
    \E i \in DOMAIN head :
       head[i] = [username |-> username, password |-> password, isAdmin |-> isAdmin]

LoginSeparatesRoles ==
    [][ /\ \A l \in Logins :
             AdminLogin(l[1], l[2]) =>
                IF pc' = "adminMenu"
                THEN Registered(l[1], l[2], 1) /\ currentUser' = l[1]
                ELSE UNCHANGED <<pc, currentUser>>
        /\ \A l \in Logins :
             UserLogin(l[1], l[2]) =>
                IF pc' = "userMenu"
                THEN Registered(l[1], l[2], 0) /\ currentUser' = l[1]
                ELSE UNCHANGED <<pc, currentUser>>
        /\ (pc = "mainMenu" /\ pc' = "adminMenu") =>
              \E l \in Logins : currentUser' = l[1] /\ Registered(l[1], l[2], 1)
        /\ (pc = "mainMenu" /\ pc' = "userMenu") =>
              \E l \in Logins : currentUser' = l[1] /\ Registered(l[1], l[2], 0)
      ]_vars

UserLoggedInBesideAdmin ==
    /\ pc = "userMenu"
    /\ currentUser = "ana"
    /\ Registered("root", "pw", 1)

(* C18: handleReservationApproval with an answer other than yes or no,
   handleCancellationRequests with an answer other than yes or no, and both
   with reservation ID 0 or an ID that no reservation has, leave the
   reservation list as it was; an answer that overflows the answer buffer
   leaves the statuses as they were in reservations.dat. *)
InvalidAnswerChangesNothing ==
    [][ /\ (pc = "adminMenu" /\ reservationsHead' # reservationsHead) =>
              \A r \in ReservationInputs, d \in Decisions :
                 (/\ \/ d \notin {"yes", "no"}
                     \/ r = ExitInput
                     \/ \A i \in DOMAIN reservationsHead :
                           reservationsHead[i].reservationID # r
                  /\ HandleReservationApproval(r, d) \/ HandleCancellationRequests(r, d))
                    => reservationsHead' = reservationsHead
        /\ (pc = "adminMenu" /\ pc' = "off") =>
              \A r \in ReservationInputs :
                 ApprovalAnswerOverflow(r) =>
                    loadReservationsFromFile(reservationsFile') = reservationsHead
      ]_vars

AwaitingBothDecisions ==
    /\ pc = "adminMenu"
    /\ \E i \in DOMAIN reservationsHead : reservationsHead[i].status = "Pending"
    /\ \E i \in DOMAIN reservationsHead :
          reservationsHead[i].status = "Cancel Requested"

(* C19: adminMenu() ends, and the main menu is back, only by option 8. *)
AdminMenuEndsByLogout ==
    [][(pc = "adminMenu" /\ pc' = "mainMenu") => adminChoice' = 8]_vars

(* C20: cancelUserReservation changes no reservation whose username is not
   the logged-in user, and when the entered ID belongs to no reservation of
   the logged-in user the reservation list stays as it was. *)
CancelOnlyOwn ==
    [][ pc = "userMenu" =>
          \A r \in ReservationInputs :
             CancelUserReservation(r) =>
                /\ Len(reservationsHead') = Len(reservationsHead)
                /\ \A i \in DOMAIN reservationsHead :
                      reservationsHead[i].username # currentUser
                         => reservationsHead'[i] = reservationsHead[i]
                /\ (\A i \in DOMAIN reservationsHead :
                       ~(/\ reservationsHead[i].reservationID = r
                         /\ reservationsHead[i].username = currentUser))
                      => reservationsHead' = reservationsHead
      ]_vars

OtherUsersApprovedReservation ==
    /\ pc = "userMenu"
    /\ \E i, j \in DOMAIN reservationsHead :
          /\ reservationsHead[i].username = currentUser
          /\ reservationsHead[i].status = "Cancel Requested"
          /\ reservationsHead[j].username \notin {currentUser, ""}
          /\ reservationsHead[j].status = "Approved"

(* C21: a cancellation request changes no computed availability; the
   confirmation of a requested cancellation raises the computed availability
   of the flight (hotel) the reservation is for by exactly one and changes no
   other; after the denial of a requested cancellation the Approved
   reservations of no flight or hotel outnumber its capacity. *)
SameAvailability ==
    /\ \A i \in DOMAIN flightsHead :
          LET n == flightsHead[i].flightNumber
          IN calculateAvailableSeats(flightsHead', reservationsHead', n)
              = calculateAvailableSeats(flightsHead, reservationsHead, n)
    /\ \A i \in DOMAIN hotelsHead :
          LET n == hotelsHead[i].hotelID
          IN calculateAvailableRooms(hotelsHead', reservationsHead', n)
              = calculateAvailableRooms(hotelsHead, reservationsHead, n)

OneMoreAvailable(r) ==
    /\ \A i \in DOMAIN flightsHead :
          LET n == flightsHead[i].flightNumber
          IN calculateAvailableSeats(flightsHead', reservationsHead', n)
              = calculateAvailableSeats(flightsHead, reservationsHead, n)
                + (IF IsForFlight(r, n) THEN 1 ELSE 0)
    /\ \A i \in DOMAIN hotelsHead :
          LET n == hotelsHead[i].hotelID
          IN calculateAvailableRooms(hotelsHead', reservationsHead', n)
              = calculateAvailableRooms(hotelsHead, reservationsHead, n)
                + (IF IsForHotel(r, n) THEN 1 ELSE 0)

WithinCapacityAfter ==
    /\ \A i \in DOMAIN flightsHead' :
          calculateAvailableSeats(flightsHead', reservationsHead',
                                  flightsHead'[i].flightNumber) >= 0
    /\ \A i \in DOMAIN hotelsHead' :
          calculateAvailableRooms(hotelsHead', reservationsHead',
                                  hotelsHead'[i].hotelID) >= 0

CancelRequestKeepsPlace ==
    [][ /\ (pc = "userMenu" /\ reservationsHead' # reservationsHead) =>
              \A r \in ReservationInputs :
                 CancelUserReservation(r) => SameAvailability
        /\ (pc = "adminMenu" /\ reservationsHead' # reservationsHead) =>
              \A r \in ReservationInputs :
                 LET k == FindReservation(reservationsHead, r)
                 IN (k # 0 /\ reservationsHead[k].status = "Cancel Requested") =>
                       /\ HandleCancellationRequests(r, "yes")
                             => OneMoreAvailable(reservationsHead[k])
                       /\ HandleCancellationRequests(r, "no")
                             => WithinCapacityAfter
      ]_vars

====
